---- MODULE Spec2Model ----
(***************************************************************************)
(* The live-candle pipeline of the StockChart component: the history       *)
(* loader (fetchStockData), the trade-stream socket effect and the live    *)
(* aggregator (processTrades), with the chart series they feed.            *)
(*                                                                         *)
(* One action is one task of the browser's event loop: a click handler     *)
(* with the render and effects it causes, the continuation of an awaited   *)
(* request, or one socket event.                                           *)
(***************************************************************************)
EXTENDS Integers, Sequences, FiniteSets, Bags, TLC

VARIABLES
    mounted,        \* the chart component is mounted
    symbol,         \* prop `symbol`
    resolution,     \* state `resolution`
    resolutionRef,  \* resolutionRef.current
    data,           \* state `data`, as last passed to setData
    dataRef,        \* dataRef.current: the candle store
    aliased,        \* `data` and dataRef.current are the same array object
    renderPending,  \* setData was called and the [data] effect has not run yet
    series,         \* the candles held by the chart's candlestick series
    fitted,         \* isChartFittedRef.current
    loading,        \* state `loading`
    wsStatus,       \* state `wsStatus`
    resizeTimer,    \* the 50 ms timer of the [isExpanded] effect is pending
    fetches,        \* history requests in flight: a bag of [symbol, resolution]
    sockets,        \* every WebSocket created so far, by creation number
    ws,             \* the socket the current WebSocket effect closed over (0: none)
    used,           \* how many inputs the environment has made so far
    liveTimes,      \* times of the candles live trades made or changed this session
    rendered,       \* the [data] effect has drawn a non-empty series since the last
                    \* symbol or resolution change (history variable)
    last,           \* the input of the last step, when it was a load of the history,
                    \* a history answer or a trade message (history variable)
    messages,       \* App: state `messages`, by the kind of each message
    chatLoading,    \* App: state `chatLoading`
    poll,           \* App: the locals of the running pollChatResult, its interval
                    \* and its status requests in flight
    submit,         \* App: the locals of the running processMessage and where it is
    symbols,        \* App: state `symbols`, the watchlist
    stockData,      \* App: state `stockData`, the price of each symbol that has an entry
    quotes,         \* App: the symbols with a quote request (fetchInitialData) in flight
    activeSymbol,   \* App: state `activeSymbol`
    traderStock,    \* TraderView: stockData.symbol ("" while stockData is null)
    chartRange,     \* TraderView: state `chartRange`
    chartData,      \* TraderView: the request whose candles chartData holds, or NoData
    loadingChart,   \* TraderView: state `loadingChart`
    stockRequests,  \* TraderView: the symbols with a search (fetchStockData) in flight
    candleRequests  \* TraderView: the candle requests (fetchChartData) in flight

chartVars ==
    <<mounted, symbol, resolution, resolutionRef, data, dataRef, aliased,
      renderPending, series, fitted, loading, wsStatus, resizeTimer, fetches,
      sockets, ws, used, liveTimes, rendered, last>>

chatVars == <<messages, chatLoading, poll, submit>>

watchVars == <<symbols, stockData, quotes, activeSymbol>>

traderVars ==
    <<traderStock, chartRange, chartData, loadingChart, stockRequests, candleRequests>>

vars == <<chartVars, chatVars, watchVars, traderVars>>

\* what the handlers of one component leave alone
otherThanChart == <<chatVars, watchVars, traderVars>>
otherThanChat == <<chartVars, watchVars, traderVars>>
otherThanWatch == <<chartVars, chatVars, traderVars>>
otherThanTrader == <<chartVars, chatVars, watchVars>>

-----------------------------------------------------------------------------
(* Bounds of the model. *)
MaxInputs == 2      \* symbol and resolution changes, reloads, expand toggles, trades
MaxBatch == 2       \* trades in one socket message
MaxLen == 3         \* candles in a history array of any order (SpecHistory)
MaxInFlight == 2    \* status requests of a chat poll followed at the same time
MaxWatch == 3       \* symbols in the watchlist

Symbols == {"AAPL", "MSFT"}
Resolutions == {"1s", "1", "5"}
Prices == {1, 3}
Volumes == {1}
\* trade timestamps in milliseconds: 0.5 s, 61 s, 301 s
TradeTimes == {500, 61000, 301000}

NoVolume == -1      \* a candle without the optional `volume` field
NaN == -2           \* a price that is not a number (NaN, or an absent `p`)
Missing == -3       \* a required field that a history record does not have

\* every value of the type Resolution, and a value outside it
AllResolutions == {"1s", "1", "5", "15", "60", "D"}
Unrecognized == "30"

\* trade timestamps in milliseconds around the bucket boundaries of every interval
BoundaryTimes ==
    {0, 999, 1000, 59999, 60000, 299999, 300000, 899999, 900000,
     3599999, 3600000, 86399999, 86400000, 172800001}

-----------------------------------------------------------------------------
(* Pure helpers. *)

\* Math.max and Math.min of two values: NaN when either is NaN
Max(a, b) == IF a = NaN \/ b = NaN THEN NaN ELSE IF a >= b THEN a ELSE b
Min(a, b) == IF a = NaN \/ b = NaN THEN NaN ELSE IF a <= b THEN a ELSE b

\* every resolution takes the initial value of the inline lookup
getIntervalSecondsDefault(res) == 60

getIntervalSeconds(res) ==
    IF res = "1s" THEN 1
    ELSE IF res = "1" THEN 60
    ELSE IF res = "5" THEN 5 * 60
    ELSE IF res = "15" THEN 15 * 60
    ELSE IF res = "60" THEN 60 * 60
    ELSE 24 * 60 * 60

Candle(t, o, h, l, c, v) ==
    [time |-> t, open |-> o, high |-> h, low |-> l, close |-> c, volume |-> v]

\* Math.round in the place of Math.floor
candleTimeRounded(t, intervalSeconds) ==
    ((t + 500 * intervalSeconds) \div (1000 * intervalSeconds)) * intervalSeconds

\* Math.floor((trade.t / 1000) / intervalSeconds) * intervalSeconds, for an
\* integer millisecond stamp t >= 0
candleTime(t, intervalSeconds) == (t \div (1000 * intervalSeconds)) * intervalSeconds

\* lastCandle.volume || 0
VolumeOrZero(c) == IF c.volume = NoVolume THEN 0 ELSE c.volume

Last(s) == s[Len(s)]
Front(s) == SubSeq(s, 1, Len(s) - 1)

-----------------------------------------------------------------------------
(* fetchStockData: sorting and deduplicating the history payload. *)

\* where Array.prototype.sort (stable) puts c among the already sorted candles:
\* after every candle whose time is not greater
InsertByTime(sorted, c) ==
    LET n == Cardinality({i \in 1..Len(sorted) : sorted[i].time <= c.time})
    IN  SubSeq(sorted, 1, n) \o <<c>> \o SubSeq(sorted, n + 1, Len(sorted))

\* the sort left out: the array stays in the order it arrived in
sortedDataAsReceived(arr) == arr

RECURSIVE sortedData(_)
\* response.data.sort((a, b) => a.time - b.time)
sortedData(arr) ==
    IF arr = <<>> THEN <<>>
    ELSE InsertByTime(sortedData(Front(arr)), Last(arr))

\* the dedup loop left out: every sorted candle is kept
uniqueDataKeepsAll(sorted) == sorted

RECURSIVE uniqueData(_)
\* the dedup loop: a candle is pushed unless its time was already seen
uniqueData(sorted) ==
    IF sorted = <<>> THEN <<>>
    ELSE LET before == uniqueData(Front(sorted))
             candle == Last(sorted)
         IN  IF \E i \in 1..Len(before) : before[i].time = candle.time
             THEN before
             ELSE Append(before, candle)

-----------------------------------------------------------------------------
(* The chart series (lightweight-charts), as the component drives it. *)

\* series.update(c) replaces the last bar when the times are equal, appends a
\* later bar, and throws on a bar older than the last one
SeriesAccepts(s, c) == s = <<>> \/ c.time >= Last(s).time

\* an update that always adds a bar, also when the last bar has the same time
SeriesUpdateAppends(s, c) == Append(s, c)

SeriesUpdate(s, c) ==
    IF s # <<>> /\ c.time = Last(s).time THEN Append(Front(s), c)
    ELSE Append(s, c)

-----------------------------------------------------------------------------
(* processTrades. *)

\* the update without `|| 0`: an absent volume is added as it is
updatedCandleNoDefault(lastCandle, price, volume) ==
    [lastCandle EXCEPT !.high = Max(lastCandle.high, price),
                       !.low = Min(lastCandle.low, price),
                       !.close = price,
                       !.volume = lastCandle.volume + volume]

\* the update without Math.max: the last price becomes the high
updatedCandleHighIsPrice(lastCandle, price, volume) ==
    [lastCandle EXCEPT !.high = price,
                       !.low = Min(lastCandle.low, price),
                       !.close = price,
                       !.volume = VolumeOrZero(lastCandle) + volume]

\* the candle that replaces the last one when the trade falls in its bucket
updatedCandle(lastCandle, price, volume) ==
    [lastCandle EXCEPT !.high = Max(lastCandle.high, price),
                       !.low = Min(lastCandle.low, price),
                       !.close = price,
                       !.volume = VolumeOrZero(lastCandle) + volume]

\* a new candle that forgets the trade's volume
newCandleNoVolume(time, price, volume) == Candle(time, price, price, price, price, 0)

\* the candle opened by the first trade of a new bucket
newCandle(time, price, volume) == Candle(time, price, price, price, price, volume)

\* `lastCandle && lastCandle.time === candleTime`; lastCandle is <<>> when undefined
sameBucket(lastCandle, time) == lastCandle # <<>> /\ lastCandle[1].time = time

\* a plain `else`: every trade outside the last bucket opens a candle
laterBucketAlways(lastCandle, time) == TRUE

\* `!lastCandle || candleTime > lastCandle.time`
laterBucket(lastCandle, time) == lastCandle = <<>> \/ time > lastCandle[1].time

\* One iteration of trades.forEach. acc holds the array dataRef.current points to
\* (lastCandles), the local lastCandle, the series, and whether series.update has
\* thrown, which ends the forEach and the handler. steps records, per trade, the
\* array after it and the candle passed to series.update, if any.
tradeStep(acc, trade, intervalSeconds) ==
    LET price == trade.p
        volume == trade.v
        time == candleTime(trade.t, intervalSeconds)
        skip(why) == [acc EXCEPT !.steps = Append(@, [store |-> acc.lastCandles,
                                                      call |-> <<>>, did |-> why])]
        apply(candles, c, why) ==
            [lastCandles |-> candles,
             lastCandle |-> <<c>>,
             series |-> IF SeriesAccepts(acc.series, c)
                        THEN SeriesUpdate(acc.series, c) ELSE acc.series,
             threw |-> ~SeriesAccepts(acc.series, c),
             steps |-> Append(acc.steps, [store |-> candles, call |-> <<c>>, did |-> why])]
    IN  IF acc.threw THEN skip("aborted")
        ELSE IF sameBucket(acc.lastCandle, time)
        THEN LET c == updatedCandle(acc.lastCandle[1], price, volume)
             IN  apply(Append(Front(acc.lastCandles), c), c, "update")
        ELSE IF laterBucket(acc.lastCandle, time)
        THEN LET c == newCandle(time, price, volume)
             IN  apply(Append(acc.lastCandles, c), c, "append")
        ELSE skip("dropped")

RECURSIVE forEachTrade(_, _, _)
forEachTrade(acc, trades, intervalSeconds) ==
    IF trades = <<>> THEN acc
    ELSE forEachTrade(tradeStep(acc, Head(trades), intervalSeconds),
                      Tail(trades), intervalSeconds)

\* processTrades(trades) on the array `candles` and the series `s`
processTrades(candles, s, currentRes, trades) ==
    forEachTrade([lastCandles |-> candles,
                  lastCandle |-> IF candles = <<>> THEN <<>> ELSE <<Last(candles)>>,
                  series |-> s, threw |-> FALSE, steps |-> <<>>],
                 trades, getIntervalSeconds(currentRes))

-----------------------------------------------------------------------------
(* What the environment can send. *)

\* a well-formed history bar: high and low are the larger and smaller of open, close
Bar(t, o, c, v) == Candle(t, o, Max(o, c), Min(o, c), c, v)

\* payloads the history endpoint may answer a request for `res` with, aligned to
\* the interval of `res`: unsorted with a repeated time, and empty
HistoryPayloads(res) ==
    LET i == getIntervalSeconds(res)
    IN  { <<Bar(i, 2, 2, NoVolume), Bar(0, 1, 1, 5), Bar(i, 3, 3, 5)>>,
          <<>> }

\* any array the endpoint may send: up to MaxLen bars in any order, times and
\* values repeating, some records incomplete
AnyBars ==
    {Bar(t, o, o, 1) : t \in {0, 60, 120}, o \in {1, 2}}
    \cup {Candle(60, 1, 1, 1, Missing, 1)}     \* a record without `close`
AnyPayloads == UNION {[1..n -> AnyBars] : n \in 0..MaxLen}

\* a trade as the stream sends it: symbol, price, volume, time in milliseconds
Trades(sym) == [s : {sym}, p : Prices, v : Volumes, t : TradeTimes]

\* the messages of at most `most` trades
Batches(sym, most) ==
    UNION {[1..n -> Trades(sym)] : n \in 1..Min(most, MaxBatch)}

\* trades at the bucket boundaries, some of them without a usable price
BoundaryTrades(sym) == [s : {sym}, p : {2, NaN}, v : Volumes, t : BoundaryTimes]

BoundaryBatches(sym, most) ==
    UNION {[1..n -> BoundaryTrades(sym)] : n \in 1..Min(most, MaxBatch)}

-----------------------------------------------------------------------------
(* Sockets. *)

Sent(type, sym) == [op |-> "send", type |-> type, symbol |-> sym]
Closed == [op |-> "close", type |-> "", symbol |-> ""]

\* new WebSocket(...), created by the WebSocket effect for `sym`
NewSocket(sym) == [sym |-> sym, state |-> "connecting", log |-> <<>>, torn |-> "no"]

\* the cleanup of the WebSocket effect, on the socket it closed over; `torn`
\* records the readyState the cleanup found
wsCleanup(sock) ==
    IF sock.state = "open"
    THEN [sock EXCEPT !.log = @ \o <<Sent("unsubscribe", sock.sym), Closed>>,
                      !.state = "closing",
                      !.torn = sock.state]
    ELSE [sock EXCEPT !.torn = sock.state]

Live(sock) == sock.state \in {"connecting", "open"}

\* the handlers of a socket act on the instance that created it, while it is mounted
Owned(id) == mounted

-----------------------------------------------------------------------------
(* The [data] effect: a full redraw, and the one-time fit. *)

fitAfterRender(candles, wasFitted) == wasFitted \/ Len(candles) > 0

NoStep == [kind |-> "other"]

\* a call of fetchStockData() for `sym` and `res`, on a store of `candles` candles
Load(sym, res) ==
    [kind |-> "load", symbol |-> sym, resolution |-> res, candles |-> Len(dataRef)]

Request(sym, res) == [symbol |-> sym, resolution |-> res]

\* setData([]); dataRef.current = [], and the redraw of the empty series that the
\* re-render brings (within the same click or prop change)
ClearStore ==
    /\ data' = <<>>
    /\ dataRef' = <<>>
    /\ aliased' = FALSE
    /\ series' = <<>>
    /\ renderPending' = FALSE

KeepStore == UNCHANGED <<data, dataRef, aliased, series, renderPending>>

\* fetchStockData() without the '1s' branch: every load asks the endpoint
RequestHistoryAlways(sym, res) ==
    /\ loading' = TRUE
    /\ fetches' = fetches (+) SetToBag({Request(sym, res)})

\* fetchStockData() up to its await: nothing is requested for '1s'
RequestHistory(sym, res) ==
    IF res = "1s"
    THEN UNCHANGED <<loading, fetches>>
    ELSE /\ loading' = TRUE
         /\ fetches' = fetches (+) SetToBag({Request(sym, res)})

\* what the component shows for the state `d` of data and `l` of loading: the
\* header (symbol, timeframe, connection dot), the spinner of the reload button,
\* the "Waiting for live data..." overlay and the drawn series
Shown(d, l) ==
    [symbol |-> symbol, resolution |-> resolution,
     connected |-> (wsStatus = "connected"), spinning |-> l,
     waiting |-> (Len(d) = 0 /\ ~l), series |-> series]

\* the candles a run of processTrades passed to series.update
Calls(steps) == {steps[k].call[1] : k \in {n \in 1..Len(steps) : steps[n].call # <<>>}}

-----------------------------------------------------------------------------
(* App: the chat client's polling of a task (pollChatResult). *)

\* TIMEOUT / INTERVAL: the ticks of the 3 s interval that fit in the 120 s
TickLimit == 40
\* a poll gives up when more than this many status requests in a row failed
MaxErrors == 5

tooManyErrorsAtLimit(errors) == errors >= MaxErrors

\* the test of the catch, after its ++errors
tooManyErrors(errors) == errors > MaxErrors

\* the bot messages that end a poll
TerminalTexts == {"answer", "invalid", "failed", "restarted", "timeout", "connection"}

\* what a status request can come back with: a 404, any other failure (network,
\* HTTP status, unparsable body), or a parsed status
Answers == {"notFound", "error", "success", "invalid", "failure", "pending"}

\* no poll: nothing was started yet
NoPoll ==
    [started |-> FALSE, timer |-> FALSE, done |-> FALSE, errors |-> 0, ticks |-> 0,
     inFlight |-> 0, cleared |-> 0]

\* MAX: the retries of a submission after its first attempt
MAX == 10

lastAttemptLater(i) == i = MAX + 1

\* the test of the catch of an attempt: no retry is left
lastAttempt(i) == i = MAX

\* processMessage after setChatLoading(true) and its first fetch: the loop
\* counter i, warmingShown, where the function is (at "post": awaiting the
\* fetch, at "sleep": awaiting the backoff timer, "polling": returned after
\* pollChatResult, "failed": returned after the last retry), and the number of
\* POST requests made so far (history field)
FirstAttempt == [i |-> 0, warmingShown |-> FALSE, at |-> "post", posts |-> 1]

showWarmAlways(shown, msgs) == Append(msgs, "warming")

\* showWarm: the warming message is appended unless warmingShown is set
showWarm(shown, msgs) == IF shown THEN msgs ELSE Append(msgs, "warming")

\* removeWarm: p.filter(m => m.id !== WARM_ID)
removeWarm(msgs) == SelectSeq(msgs, LAMBDA m : m # "warming")

\* the state after App's mount effects: the welcome message, and the first
\* submission (processMessage('hey')) waiting for its task id
ChatInit ==
    /\ messages = <<"welcome">>
    /\ chatLoading = TRUE
    /\ poll = NoPoll
    /\ submit = FirstAttempt

\* the catch of an attempt (network failure, HTTP status, no task_id): give up
\* after the last retry, or show the warming message and sleep
PostFailed ==
    /\ submit.at = "post"
    /\ IF lastAttempt(submit.i)
       THEN /\ messages' = Append(removeWarm(messages), "unreachable")
            /\ chatLoading' = FALSE
            /\ submit' = [submit EXCEPT !.at = "failed"]
       ELSE /\ messages' = showWarm(submit.warmingShown, messages)
            /\ submit' = [submit EXCEPT !.warmingShown = TRUE, !.at = "sleep"]
            /\ UNCHANGED chatLoading
    /\ UNCHANGED poll
    /\ UNCHANGED otherThanChat

\* the backoff timer fires: i++ and the next fetch
BackoffElapsed ==
    /\ submit.at = "sleep"
    /\ submit' = [submit EXCEPT !.i = @ + 1, !.at = "post", !.posts = @ + 1]
    /\ UNCHANGED <<messages, chatLoading, poll>>
    /\ UNCHANGED otherThanChat

\* done = true; clearInterval(id); setMessages(prev => [...prev, text]);
\* setChatLoading(false). `cleared` counts the calls of setChatLoading(false).
Finish(p, text) ==
    /\ poll' = [p EXCEPT !.done = TRUE, !.timer = FALSE, !.cleared = @ + 1]
    /\ messages' = Append(messages, text)
    /\ chatLoading' = FALSE

\* the submission got its task id: pollChatResult(task_id) sets the interval
PollStarted ==
    /\ submit.at = "post"
    /\ messages' = removeWarm(messages)
    /\ poll' = [NoPoll EXCEPT !.started = TRUE, !.timer = TRUE]
    /\ submit' = [submit EXCEPT !.at = "polling"]
    /\ UNCHANGED chatLoading
    /\ UNCHANGED otherThanChat

\* one tick of the interval, up to its await: the timeout, or a status request.
\* Requests beyond MaxInFlight are the ones that never resolve.
PollTick ==
    /\ poll.timer
    /\ poll.ticks <= TickLimit
    /\ LET p == [poll EXCEPT !.ticks = @ + 1]
       IN  IF poll.done
           THEN poll' = p /\ UNCHANGED <<messages, chatLoading>>
           ELSE IF p.ticks > TickLimit
           THEN Finish(p, "timeout")
           ELSE /\ poll' = [p EXCEPT !.inFlight = Min(@ + 1, MaxInFlight)]
                /\ UNCHANGED <<messages, chatLoading>>
    /\ UNCHANGED submit
    /\ UNCHANGED otherThanChat

\* one tick after its await: no branch looks at `done` again
PollAnswered(answer) ==
    /\ poll.inFlight > 0
    /\ LET p == [poll EXCEPT !.inFlight = @ - 1]
       IN  CASE answer = "notFound" -> Finish(p, "restarted")
              [] answer = "error" ->
                    LET q == [p EXCEPT !.errors = @ + 1]
                    IN  IF tooManyErrors(q.errors) THEN Finish(q, "connection")
                        ELSE poll' = q /\ UNCHANGED <<messages, chatLoading>>
              [] answer = "success" -> Finish([p EXCEPT !.errors = 0], "answer")
              [] answer = "invalid" -> Finish([p EXCEPT !.errors = 0], "invalid")
              [] answer = "failure" -> Finish([p EXCEPT !.errors = 0], "failed")
              [] answer = "pending" ->
                    poll' = [p EXCEPT !.errors = 0] /\ UNCHANGED <<messages, chatLoading>>
    /\ UNCHANGED submit
    /\ UNCHANGED otherThanChat

-----------------------------------------------------------------------------
(* App: the watchlist and its price table. The socket of the watchlist is *)
(* followed only through the trade messages it delivers.                  *)

WatchSymbols == {"AAPL", "TSLA", "NVDA"}
QuotePrices == {1, 2}

\* the symbols of a list
Listed(list) == {list[i] : i \in 1..Len(list)}

\* the price table without the entry of `sym`
WithoutEntry(table, sym) == [s \in DOMAIN table \ {sym} |-> table[s]]

\* the price table with `price` as the entry of `sym`
WithEntry(table, sym, price) ==
    [s \in DOMAIN table \cup {sym} |-> IF s = sym THEN price ELSE table[s]]

\* the state after App's mount: the first symbols of the list, each with its
\* quote request in flight, and no price yet
WatchInit ==
    /\ symbols = <<"AAPL", "TSLA">>
    /\ stockData = <<>>
    /\ quotes = {"AAPL", "TSLA"}
    /\ activeSymbol = "SPY"

handleAddSymbolUnchecked(list, sym) == Append(list, sym)

\* handleAddSymbol: if (sym && !symbols.includes(sym)) setSymbols(prev => [...prev, sym])
handleAddSymbol(list, sym) ==
    IF sym # "" /\ sym \notin Listed(list) THEN Append(list, sym) ELSE list

\* the [apiKey, symbols, fetchInitialData] effect after a change of the list:
\* symbols.forEach(s => fetchInitialData(s))
QuotesAfter(list) == IF list # symbols THEN quotes \cup Listed(list) ELSE quotes

\* a result of a SymbolSearch wired to handleAddSymbol is clicked
AddSymbol(sym) ==
    /\ Len(symbols) < MaxWatch
    /\ symbols' = handleAddSymbol(symbols, sym)
    /\ quotes' = QuotesAfter(symbols')
    /\ UNCHANGED <<stockData, activeSymbol>>
    /\ UNCHANGED otherThanWatch

\* a result of the chart tab's inline symbol switcher is clicked
SwitcherSelect(sym) ==
    /\ Len(symbols) < MaxWatch
    /\ activeSymbol' = sym
    /\ symbols' = IF sym \notin Listed(symbols) THEN handleAddSymbol(symbols, sym)
                  ELSE symbols
    /\ quotes' = QuotesAfter(symbols')
    /\ UNCHANGED stockData
    /\ UNCHANGED otherThanWatch

\* a row of the watchlist is clicked
RowClicked(sym) ==
    /\ sym \in Listed(symbols)
    /\ activeSymbol' = sym
    /\ UNCHANGED <<symbols, stockData, quotes>>
    /\ UNCHANGED otherThanWatch

\* removeSymbol, and the effect the changed list runs again
RemoveSymbol(sym) ==
    /\ sym \in Listed(symbols)
    /\ symbols' = SelectSeq(symbols, LAMBDA s : s # sym)
    /\ stockData' = WithoutEntry(stockData, sym)
    /\ quotes' = QuotesAfter(symbols')
    /\ UNCHANGED activeSymbol
    /\ UNCHANGED otherThanWatch

\* fetchInitialData after its await, with a quote that has a number as `c`
QuoteResolved(sym, price) ==
    /\ sym \in quotes
    /\ quotes' = quotes \ {sym}
    /\ stockData' = WithEntry(stockData, sym, price)
    /\ UNCHANGED <<symbols, activeSymbol>>
    /\ UNCHANGED otherThanWatch

\* fetchInitialData after its await, with anything else or a failure
QuoteFailed(sym) ==
    /\ sym \in quotes
    /\ quotes' = quotes \ {sym}
    /\ UNCHANGED <<symbols, stockData, activeSymbol>>
    /\ UNCHANGED otherThanWatch

\* ws.onmessage with a trade of `sym`: only a symbol that has an entry is updated
TradeMessage(sym, price) ==
    /\ stockData' = IF sym \in DOMAIN stockData THEN WithEntry(stockData, sym, price)
                    ELSE stockData
    /\ UNCHANGED <<symbols, quotes, activeSymbol>>
    /\ UNCHANGED otherThanWatch

-----------------------------------------------------------------------------
(* TraderView: the searched stock, the range of its chart and the candles. *)

TraderStocks == {"AAPL", "TSLA"}
ChartRanges == {"1D", "1W", "1M", "1Y"}

\* getTimestamps: the days back from now and the resolution of a range
getTimestamps(range) ==
    CASE range = "1D" -> [days |-> 1, resolution |-> "15"]
      [] range = "1W" -> [days |-> 7, resolution |-> "60"]
      [] range = "1M" -> [days |-> 30, resolution |-> "D"]
      [] range = "1Y" -> [days |-> 365, resolution |-> "D"]
      [] OTHER -> [days |-> 30, resolution |-> "D"]

\* the candle request of fetchChartData for a stock and a range
CandleRequest(stock, range) ==
    [stock |-> stock, range |-> range, days |-> getTimestamps(range).days,
     resolution |-> getTimestamps(range).resolution]

\* chartData = null
NoData == [stock |-> "", range |-> "", days |-> 0, resolution |-> ""]

\* the state after TraderView's mount, with the chart library loaded
TraderInit ==
    /\ traderStock = ""
    /\ chartRange = "1M"
    /\ chartData = NoData
    /\ loadingChart = FALSE
    /\ stockRequests = {}
    /\ candleRequests = {}

\* the [stockData, chartRange, isScriptLoaded] effect: nothing while stockData
\* is null, else fetchChartData up to its await
ChartEffect(stock, range) ==
    IF stock = ""
    THEN UNCHANGED <<loadingChart, candleRequests>>
    ELSE /\ loadingChart' = TRUE
         /\ chartData' = NoData
         /\ candleRequests' = candleRequests \cup {CandleRequest(stock, range)}

\* fetchStockData up to its await: the search of `sym`
TraderSearch(sym) ==
    /\ traderStock' = ""
    /\ chartData' = NoData
    /\ stockRequests' = stockRequests \cup {sym}
    /\ UNCHANGED <<chartRange, loadingChart, candleRequests>>
    /\ UNCHANGED otherThanTrader

\* fetchStockData after its await, with a stock that was found
StockResolved(sym) ==
    /\ sym \in stockRequests
    /\ stockRequests' = stockRequests \ {sym}
    /\ traderStock' = sym
    /\ ChartEffect(sym, chartRange)
    /\ UNCHANGED chartRange
    /\ UNCHANGED otherThanTrader

\* fetchStockData after its await, with "Stock not found" or a failure
StockFailed(sym) ==
    /\ sym \in stockRequests
    /\ stockRequests' = stockRequests \ {sym}
    /\ UNCHANGED <<traderStock, chartRange, chartData, loadingChart, candleRequests>>
    /\ UNCHANGED otherThanTrader

\* a range button is clicked
RangeChange(range) ==
    /\ range # chartRange
    /\ chartRange' = range
    /\ ChartEffect(traderStock, range)
    /\ IF traderStock = "" THEN UNCHANGED chartData ELSE TRUE
    /\ UNCHANGED <<traderStock, stockRequests>>
    /\ UNCHANGED otherThanTrader

\* fetchChartData after its await: candles (`found`) or an answer without any
CandlesResolved(req, found) ==
    /\ req \in candleRequests
    /\ candleRequests' = candleRequests \ {req}
    /\ chartData' = IF found THEN req ELSE NoData
    /\ loadingChart' = FALSE
    /\ UNCHANGED <<traderStock, chartRange, stockRequests>>
    /\ UNCHANGED otherThanTrader

\* fetchChartData after its await, the fetch having failed
CandlesFailed(req) ==
    /\ req \in candleRequests
    /\ candleRequests' = candleRequests \ {req}
    /\ loadingChart' = FALSE
    /\ UNCHANGED <<traderStock, chartRange, chartData, stockRequests>>
    /\ UNCHANGED otherThanTrader

-----------------------------------------------------------------------------
(* The state after the component's first mount. The chart is mounted on one *)
(* symbol; the parent passes the others later (SymbolChange).             *)

FirstSymbol == "AAPL"

Init ==
    /\ mounted = TRUE
    /\ symbol = FirstSymbol
    /\ resolution = "1"
    /\ resolutionRef = "1"
    /\ data = <<>>
    /\ dataRef = <<>>
    /\ aliased = FALSE
    /\ renderPending = FALSE
    /\ series = <<>>
    /\ fitted = FALSE
    /\ loading = TRUE
    /\ wsStatus = "connecting"
    /\ resizeTimer = TRUE
    /\ fetches = SetToBag({Request(symbol, "1")})
    /\ sockets = <<NewSocket(symbol)>>
    /\ ws = 1
    /\ used = 0
    /\ liveTimes = {}
    /\ rendered = FALSE
    /\ last = NoStep
    /\ ChatInit
    /\ WatchInit
    /\ TraderInit

-----------------------------------------------------------------------------
(* User and parent actions. *)

\* the parent passes another symbol: cleanup of the WebSocket effect, then the
\* reset effect, the fetch effect, the WebSocket effect, and the re-render
SymbolChange(newSymbol) ==
    /\ mounted
    /\ newSymbol # symbol
    /\ used < MaxInputs
    /\ symbol' = newSymbol
    /\ fitted' = FALSE
    /\ ClearStore
    /\ RequestHistory(newSymbol, resolution)
    /\ sockets' = Append(IF ws = 0 THEN sockets
                         ELSE [sockets EXCEPT ![ws] = wsCleanup(@)],
                         NewSocket(newSymbol))
    /\ ws' = Len(sockets) + 1
    /\ wsStatus' = "connecting"
    /\ used' = used + 1
    /\ liveTimes' = {}
    /\ rendered' = FALSE
    /\ last' = Load(newSymbol, resolution)
    /\ UNCHANGED <<mounted, resolution, resolutionRef, resizeTimer>>
    /\ UNCHANGED otherThanChart

\* a click on a timeframe button: setResolution, then the resolutionRef effect
\* and the fetch effect
ResolutionChange(newRes) ==
    /\ mounted
    /\ newRes # resolution
    /\ used < MaxInputs
    /\ resolution' = newRes
    /\ resolutionRef' = newRes
    /\ IF newRes = "1s" THEN ClearStore ELSE KeepStore
    /\ RequestHistory(symbol, newRes)
    /\ used' = used + 1
    /\ liveTimes' = {}
    /\ rendered' = FALSE
    /\ last' = Load(symbol, newRes)
    /\ UNCHANGED <<mounted, symbol, fitted, wsStatus, resizeTimer, sockets, ws>>
    /\ UNCHANGED otherThanChart

\* a click on "Reload History", which is disabled while loading
ReloadHistory ==
    /\ mounted
    /\ ~loading
    /\ ~renderPending
    /\ used < MaxInputs
    /\ IF resolution = "1s" THEN ClearStore ELSE KeepStore
    /\ RequestHistory(symbol, resolution)
    /\ used' = used + 1
    /\ last' = Load(symbol, resolution)
    /\ UNCHANGED <<mounted, symbol, resolution, resolutionRef, fitted, wsStatus,
                   resizeTimer, sockets, ws, liveTimes, rendered>>
    /\ UNCHANGED otherThanChart

\* the parent removes the chart: the effects' cleanups run. Requests in flight
\* resolve into the removed instance and are not followed further; a later mount
\* is a new instance, which starts as in Init.
Unmount ==
    /\ mounted
    /\ mounted' = FALSE
    /\ sockets' = IF ws = 0 THEN sockets ELSE [sockets EXCEPT ![ws] = wsCleanup(@)]
    /\ ws' = 0
    /\ fetches' = EmptyBag
    /\ ClearStore
    /\ fitted' = FALSE
    /\ loading' = FALSE
    /\ wsStatus' = "disconnected"
    /\ resizeTimer' = FALSE
    /\ liveTimes' = {}
    /\ rendered' = FALSE
    /\ last' = NoStep
    /\ UNCHANGED <<symbol, resolution, resolutionRef, used>>
    /\ UNCHANGED otherThanChart

\* the parent passes another `isExpanded`: the cleanup of the [isExpanded] effect
\* clears the timer and the effect sets a new one
ExpandToggled ==
    /\ mounted
    /\ used < MaxInputs
    /\ resizeTimer' = TRUE
    /\ used' = used + 1
    /\ last' = NoStep
    /\ UNCHANGED <<mounted, symbol, resolution, resolutionRef, data, dataRef,
                   aliased, renderPending, series, fitted, loading, wsStatus, fetches,
                   sockets, ws, liveTimes, rendered>>
    /\ UNCHANGED otherThanChart

\* a resize timer that also sets the flag, as the fit of the [data] effect does
ResizeTimerFiredSetsFlag ==
    /\ mounted
    /\ resizeTimer
    /\ resizeTimer' = FALSE
    /\ fitted' = TRUE
    /\ last' = NoStep
    /\ UNCHANGED <<mounted, symbol, resolution, resolutionRef, data, dataRef,
                   aliased, renderPending, series, loading, wsStatus, fetches,
                   sockets, ws, used, liveTimes, rendered>>
    /\ UNCHANGED otherThanChart

\* the timer of the [isExpanded] effect fires: applyOptions and fitContent(), which
\* touch neither the data nor the flag
ResizeTimerFired ==
    /\ mounted
    /\ resizeTimer
    /\ resizeTimer' = FALSE
    /\ last' = NoStep
    /\ UNCHANGED <<mounted, symbol, resolution, resolutionRef, data, dataRef,
                   aliased, renderPending, series, fitted, loading, wsStatus, fetches,
                   sockets, ws, used, liveTimes, rendered>>
    /\ UNCHANGED otherThanChart

\* the window's "resize" event: handleResize gives the chart the size of its
\* container, which is no part of the state followed here
WindowResized ==
    /\ mounted
    /\ UNCHANGED vars

-----------------------------------------------------------------------------
(* The history request's continuation. *)

\* the awaited request of fetchStockData answers with an array
HistoryResolvedCopies(f, payload) ==
    /\ mounted
    /\ BagIn(f, fetches)
    /\ fetches' = fetches (-) SetToBag({f})
    /\ data' = uniqueData(sortedData(payload))
    /\ dataRef' = uniqueData(sortedData(payload))
    /\ aliased' = FALSE
    /\ renderPending' = TRUE
    /\ loading' = FALSE
    /\ last' = [kind |-> "history", symbol |-> f.symbol, resolution |-> f.resolution,
                payload |-> payload]
    /\ UNCHANGED <<mounted, symbol, resolution, resolutionRef, series, fitted,
                   wsStatus, resizeTimer, sockets, ws, used, liveTimes, rendered>>
    /\ UNCHANGED otherThanChart

HistoryResolved(f, payload) ==
    /\ mounted
    /\ BagIn(f, fetches)
    /\ fetches' = fetches (-) SetToBag({f})
    /\ data' = uniqueData(sortedData(payload))
    /\ dataRef' = uniqueData(sortedData(payload))
    /\ aliased' = TRUE
    /\ renderPending' = TRUE
    /\ loading' = FALSE
    /\ last' = [kind |-> "history", symbol |-> f.symbol, resolution |-> f.resolution,
                payload |-> payload]
    /\ UNCHANGED <<mounted, symbol, resolution, resolutionRef, series, fitted,
                   wsStatus, resizeTimer, sockets, ws, used, liveTimes, rendered>>
    /\ UNCHANGED otherThanChart

\* a failure handler that resets the store, as the '1s' branch does
HistoryFailedClears(f) ==
    /\ mounted
    /\ BagIn(f, fetches)
    /\ fetches' = fetches (-) SetToBag({f})
    /\ loading' = FALSE
    /\ ClearStore
    /\ last' = NoStep
    /\ UNCHANGED <<mounted, symbol, resolution, resolutionRef, fitted, wsStatus,
                   resizeTimer, sockets, ws, used, liveTimes, rendered>>
    /\ UNCHANGED otherThanChart

\* the request fails, or answers with something that is not an array: the catch
\* block logs to the console, and `finally` clears the loading state
HistoryFailed(f) ==
    /\ mounted
    /\ BagIn(f, fetches)
    /\ fetches' = fetches (-) SetToBag({f})
    /\ loading' = FALSE
    /\ last' = NoStep
    /\ UNCHANGED <<mounted, symbol, resolution, resolutionRef, data, dataRef,
                   aliased, renderPending, series, fitted, wsStatus, resizeTimer,
                   sockets, ws, used, liveTimes, rendered>>
    /\ UNCHANGED otherThanChart

\* the re-render after setData and its [data] effect: series.setData(data), and
\* fitContent() the first time the data is not empty
Render ==
    /\ mounted
    /\ renderPending
    /\ renderPending' = FALSE
    /\ series' = data
    /\ fitted' = fitAfterRender(data, fitted)
    /\ rendered' = (rendered \/ Len(data) > 0)
    /\ last' = NoStep
    /\ UNCHANGED <<mounted, symbol, resolution, resolutionRef, data, dataRef,
                   aliased, loading, wsStatus, resizeTimer, fetches, sockets, ws, used,
                   liveTimes>>
    /\ UNCHANGED otherThanChart

-----------------------------------------------------------------------------
(* Socket events. *)

\* ws.onopen
SocketOpen(id) ==
    /\ sockets[id].state = "connecting"
    /\ sockets' = [sockets EXCEPT ![id].state = "open",
                                  ![id].log = Append(@, Sent("subscribe", sockets[id].sym))]
    /\ wsStatus' = IF Owned(id) THEN "connected" ELSE wsStatus
    /\ last' = NoStep
    /\ UNCHANGED <<mounted, symbol, resolution, resolutionRef, data, dataRef,
                   aliased, renderPending, series, fitted, loading, resizeTimer,
                   fetches, ws, used, liveTimes, rendered>>
    /\ UNCHANGED otherThanChart

\* the resolution of the render that mounted the chart, as a handler that closed
\* over the state would see it
currentResAtMount == "1"

\* const currentRes = resolutionRef.current, read when a message is processed
currentRes == resolutionRef

\* ws.onmessage with a trade message: processTrades(message.data). The handlers of
\* a socket a removed instance created act on that instance only.
SocketMessage(id, trades) ==
    /\ sockets[id].state = "open"
    /\ Len(trades) <= MaxInputs - used
    /\ used' = used + Len(trades)
    /\ LET done == processTrades(dataRef, series, currentRes, trades)
       IN  IF Owned(id)
           THEN /\ dataRef' = done.lastCandles
                /\ data' = IF aliased THEN done.lastCandles ELSE data
                /\ series' = done.series
                /\ liveTimes' = liveTimes \cup {c.time : c \in Calls(done.steps)}
                /\ last' = [kind |-> "trades", socket |-> id, symbol |-> sockets[id].sym,
                            resolution |-> currentRes, trades |-> trades]
           ELSE /\ UNCHANGED <<dataRef, data, series, liveTimes>>
                /\ last' = NoStep
    /\ UNCHANGED <<mounted, symbol, resolution, resolutionRef, aliased,
                   renderPending, fitted, loading, wsStatus, resizeTimer, fetches,
                   sockets, ws, rendered>>
    /\ UNCHANGED otherThanChart

\* ws.onclose after ws.close()
SocketClosed(id) ==
    /\ sockets[id].state = "closing"
    /\ sockets' = [sockets EXCEPT ![id].state = "closed"]
    /\ wsStatus' = IF Owned(id) THEN "disconnected" ELSE wsStatus
    /\ last' = NoStep
    /\ UNCHANGED <<mounted, symbol, resolution, resolutionRef, data, dataRef,
                   aliased, renderPending, series, fitted, loading, resizeTimer,
                   fetches, ws, used, liveTimes, rendered>>
    /\ UNCHANGED otherThanChart

\* the connection fails or the server drops it: ws.onerror and ws.onclose run in
\* the same task, so the status ends as "disconnected"
SocketFailed(id) ==
    /\ Live(sockets[id])
    /\ sockets' = [sockets EXCEPT ![id].state = "closed"]
    /\ wsStatus' = IF Owned(id) THEN "disconnected" ELSE wsStatus
    /\ last' = NoStep
    /\ UNCHANGED <<mounted, symbol, resolution, resolutionRef, data, dataRef,
                   aliased, renderPending, series, fitted, loading, resizeTimer,
                   fetches, ws, used, liveTimes, rendered>>
    /\ UNCHANGED otherThanChart

-----------------------------------------------------------------------------
Next ==
    \/ \E newSymbol \in Symbols : SymbolChange(newSymbol)
    \/ \E newRes \in Resolutions : ResolutionChange(newRes)
    \/ ReloadHistory
    \/ Unmount
    \/ ExpandToggled
    \/ ResizeTimerFired
    \/ WindowResized
    \/ \E f \in BagToSet(fetches) : \E payload \in HistoryPayloads(f.resolution) :
           HistoryResolved(f, payload)
    \/ \E f \in BagToSet(fetches) : HistoryFailed(f)
    \/ Render
    \/ \E id \in DOMAIN sockets : SocketOpen(id)
    \/ \E id \in DOMAIN sockets : \E trades \in Batches(sockets[id].sym, MaxInputs - used) :
           SocketMessage(id, trades)
    \/ \E id \in DOMAIN sockets : SocketClosed(id)
    \/ \E id \in DOMAIN sockets : SocketFailed(id)

Spec == Init /\ [][Next]_vars

\* The chat client: one submission and the poll of its task.
NextChat ==
    \/ PostFailed
    \/ BackoffElapsed
    \/ PollStarted
    \/ PollTick
    \/ \E answer \in Answers : PollAnswered(answer)

SpecChat == Init /\ [][NextChat]_vars

\* The watchlist of App and its price table.
NextWatch ==
    \/ \E sym \in WatchSymbols : AddSymbol(sym)
    \/ \E sym \in WatchSymbols : SwitcherSelect(sym)
    \/ \E sym \in WatchSymbols : RowClicked(sym)
    \/ \E sym \in WatchSymbols : RemoveSymbol(sym)
    \/ \E sym \in WatchSymbols : \E price \in QuotePrices : QuoteResolved(sym, price)
    \/ \E sym \in WatchSymbols : QuoteFailed(sym)
    \/ \E sym \in WatchSymbols : \E price \in QuotePrices : TradeMessage(sym, price)

SpecWatch == Init /\ [][NextWatch]_vars

\* The trader view: searches, range changes and the answers to their requests.
NextTrader ==
    \/ \E sym \in TraderStocks : TraderSearch(sym)
    \/ \E sym \in TraderStocks : StockResolved(sym)
    \/ \E sym \in TraderStocks : StockFailed(sym)
    \/ \E range \in ChartRanges : RangeChange(range)
    \/ \E req \in candleRequests : \E found \in BOOLEAN : CandlesResolved(req, found)
    \/ \E req \in candleRequests : CandlesFailed(req)

SpecTrader == Init /\ [][NextTrader]_vars

\* The history loader alone, answered with arrays of any order: the loads of the
\* mounted chart, their answers and the redraws.
NextHistory ==
    \/ ReloadHistory
    \/ \E f \in BagToSet(fetches) : \E payload \in AnyPayloads :
           HistoryResolved(f, payload)
    \/ Render

SpecHistory == Init /\ [][NextHistory]_vars

\* The live aggregator alone: a chart whose timeframe `res` was picked, whose
\* history came back empty and was drawn, and whose socket is open.
InitTrades(res) ==
    /\ mounted = TRUE
    /\ symbol = FirstSymbol
    /\ resolution = res
    /\ resolutionRef = res
    /\ data = <<>>
    /\ dataRef = <<>>
    /\ aliased = TRUE
    /\ renderPending = FALSE
    /\ series = <<>>
    /\ fitted = FALSE
    /\ loading = FALSE
    /\ wsStatus = "connected"
    /\ resizeTimer = FALSE
    /\ fetches = EmptyBag
    /\ sockets = <<[NewSocket(FirstSymbol) EXCEPT
                       !.state = "open",
                       !.log = <<Sent("subscribe", FirstSymbol)>>]>>
    /\ ws = 1
    /\ used = 0
    /\ liveTimes = {}
    /\ rendered = FALSE
    /\ last = NoStep
    /\ ChatInit
    /\ WatchInit
    /\ TraderInit

NextBuckets ==
    \E trades \in BoundaryBatches(FirstSymbol, MaxInputs - used) :
        SocketMessage(1, trades)

\* every timeframe of the type Resolution
InitBuckets == \E res \in AllResolutions : InitTrades(res)
SpecBuckets == InitBuckets /\ [][NextBuckets]_vars

\* a resolution outside the type reaches the aggregator
InitUnrecognized == InitTrades(Unrecognized)
SpecUnrecognized == InitUnrecognized /\ [][NextBuckets]_vars

-----------------------------------------------------------------------------
(* Properties. *)

StrictlyIncreasing(s) == \A i \in 1..(Len(s) - 1) : s[i].time < s[i + 1].time

WellFormed(c) == c.low <= Min(c.open, c.close) /\ Max(c.open, c.close) <= c.high

\* A step that ran processTrades on last'.trades: the store and the series after
\* the first k trades of the message, and whether the k-th trade was reached
\* (series.update had not thrown before it).
TradesStep == last'.kind = "trades"
Prefix(k) == processTrades(dataRef, series, last'.resolution, SubSeq(last'.trades, 1, k))
StoreAfter(k) == IF k = Len(last'.trades) THEN dataRef' ELSE Prefix(k).lastCandles
SeriesAfter(k) == IF k = Len(last'.trades) THEN series' ELSE Prefix(k).series
Reached(k) == Prefix(k).steps[k].did # "aborted"
Bucket(k) == candleTime(last'.trades[k].t, getIntervalSeconds(last'.resolution))
Without(seq, k) == SubSeq(seq, 1, k - 1) \o SubSeq(seq, k + 1, Len(seq))

\* C1: in every reachable state the times of the candles in the store are strictly
\* increasing, so no two candles of the store share a time.
C1_StoreStrictlyIncreasing == StrictlyIncreasing(dataRef)

\* C1 witness: a store under resolution '5' holding history candles and, after
\* them, a candle a live trade appended.
C1_Witness ==
    /\ resolution = "5"
    /\ Len(dataRef) >= 3
    /\ Last(dataRef).time \in liveTimes

\* C2: when a history answer for the current symbol and resolution arrives after
\* live trades of this session, the candles those trades made or changed are still
\* in the store afterwards.
C2_LateHistoryKeepsLiveCandles ==
    [][(/\ last'.kind = "history"
        /\ last'.symbol = symbol
        /\ last'.resolution = resolution
        /\ liveTimes # {})
       => \A i \in 1..Len(dataRef) :
              dataRef[i].time \in liveTimes
              => \E j \in 1..Len(dataRef') : dataRef'[j] = dataRef[i]]_vars

\* C3: a history answer for a symbol or resolution that is no longer the selected
\* one changes neither the store nor the series.
C3_StaleHistoryDiscarded ==
    [][(/\ last'.kind = "history"
        /\ (last'.symbol # symbol \/ last'.resolution # resolution))
       => (dataRef' = dataRef /\ series' = series)]_vars

\* C4: every trade message that changes the store comes from the socket of the
\* currently selected symbol.
C4_TradesCarryCurrentSymbol ==
    [][(TradesStep /\ dataRef' # dataRef) => last'.symbol = symbol]_vars

\* C5: a mounted chart has at most one socket that is connecting or open, and an
\* unmounted chart has none.
C5_AtMostOneLiveSocket ==
    Cardinality({id \in DOMAIN sockets : Live(sockets[id])}) <= (IF mounted THEN 1 ELSE 0)

\* C6: every socket that was connecting or open when its session was torn down
\* was sent an unsubscribe for its symbol, and closed only after it.
C6_UnsubscribeBeforeClose ==
    \A id \in DOMAIN sockets :
        sockets[id].torn \in {"connecting", "open"}
        => \E k \in 1..(Len(sockets[id].log) - 1) :
               /\ sockets[id].log[k] = Sent("unsubscribe", sockets[id].sym)
               /\ sockets[id].log[k + 1] = Closed
               /\ \A n \in 1..k : sockets[id].log[n] # Closed

\* C7: a trade whose bucket is the last candle's time keeps the store's length,
\* the earlier candles and the last candle's time and open, and sets high to
\* max(high, price), low to min(low, price), close to the price and volume to the
\* old volume (0 when absent) plus the trade's volume.
C7_SameBucketUpdate ==
    [][TradesStep =>
       \A k \in 1..Len(last'.trades) :
           LET pre == StoreAfter(k - 1)
               post == StoreAfter(k)
               trade == last'.trades[k]
           IN  (Reached(k) /\ pre # <<>> /\ Last(pre).time = Bucket(k))
               => /\ Len(post) = Len(pre)
                  /\ Front(post) = Front(pre)
                  /\ Last(post) =
                       [time |-> Last(pre).time,
                        open |-> Last(pre).open,
                        high |-> Max(Last(pre).high, trade.p),
                        low |-> Min(Last(pre).low, trade.p),
                        close |-> trade.p,
                        volume |-> (IF Last(pre).volume = NoVolume THEN 0
                                    ELSE Last(pre).volume) + trade.v]]_vars

\* C7 witness: the last history candle, which came without a volume, after one
\* live trade in its bucket.
C7_Witness ==
    /\ last.kind = "trades"
    /\ dataRef # <<>>
    /\ Last(dataRef).open = 2
    /\ Last(dataRef).volume = 1

\* C8: a trade whose bucket is after the last candle's time, or any trade on an
\* empty store, appends exactly one candle, with the bucket start as time, the
\* price as open, high, low and close and the trade's volume, and leaves the
\* earlier candles as they were.
C8_LaterBucketAppends ==
    [][TradesStep =>
       \A k \in 1..Len(last'.trades) :
           LET pre == StoreAfter(k - 1)
               post == StoreAfter(k)
               trade == last'.trades[k]
           IN  (Reached(k) /\ (pre = <<>> \/ Last(pre).time < Bucket(k)))
               => /\ Len(post) = Len(pre) + 1
                  /\ SubSeq(post, 1, Len(pre)) = pre
                  /\ Last(post) =
                       [time |-> Bucket(k), open |-> trade.p, high |-> trade.p,
                        low |-> trade.p, close |-> trade.p, volume |-> trade.v]]_vars

\* C8 witness: two history candles followed by a candle a live trade opened.
C8_Witness ==
    /\ last.kind = "trades"
    /\ Len(dataRef) = 3
    /\ dataRef[2].open = 2
    /\ Last(dataRef).time \in liveTimes
    /\ Last(dataRef).time > dataRef[2].time

\* C9: a trade whose bucket is before the last candle's time changes neither the
\* store nor the series, and the message has the effect it has without that trade.
C9_LateTradeDropped ==
    [][TradesStep =>
       \A k \in 1..Len(last'.trades) :
           LET pre == StoreAfter(k - 1)
               rest == processTrades(dataRef, series, last'.resolution,
                                     Without(last'.trades, k))
           IN  (Reached(k) /\ pre # <<>> /\ Bucket(k) < Last(pre).time)
               => /\ StoreAfter(k) = pre
                  /\ SeriesAfter(k) = SeriesAfter(k - 1)
                  /\ Prefix(k).steps[k].call = <<>>
                  /\ dataRef' = rest.lastCandles
                  /\ series' = rest.series]_vars

\* C9 witness: a message of two trades, the first one older than the last candle
\* and the second one applied to that candle.
C9_Witness ==
    /\ last.kind = "trades"
    /\ Len(last.trades) = 2
    /\ dataRef # <<>>
    /\ candleTime(last.trades[1].t, getIntervalSeconds(last.resolution)) < Last(dataRef).time
    /\ Last(dataRef).open = 2
    /\ Last(dataRef).volume = 1

\* C10: every candle of the store has low <= min(open, close) and
\* max(open, close) <= high, history candles being well formed.
C10_CandlesWellFormed == \A i \in 1..Len(dataRef) : WellFormed(dataRef[i])

\* C10 witness: a history candle that live trades pushed both up and down.
C10_Witness ==
    \E i \in 1..Len(dataRef) :
        dataRef[i].open = 2 /\ dataRef[i].high = 3 /\ dataRef[i].low = 1

\* A step in which the [data] effect called fitContent(): it sets the flag with it.
FitByDataEffect == ~fitted /\ fitted'
\* A step in which the timer of the [isExpanded] effect called fitContent().
FitByResizeTimer == resizeTimer /\ ~resizeTimer' /\ mounted'

\* C11: a resolution change empties the store in the step that processes it, so no
\* candle built under the old resolution is in the store afterwards.
C11_ResolutionChangeClearsStore ==
    [][resolution' # resolution => dataRef' = <<>>]_vars

\* C12: in every reachable state the time of every candle in the store is a
\* multiple of the interval of the selected resolution, the history endpoint
\* answering with candles aligned to the resolution it was asked for.
C12_StoreAlignedToResolution ==
    \A i \in 1..Len(dataRef) : dataRef[i].time % getIntervalSeconds(resolution) = 0

\* C13: a message of trades is bucketed with the interval of the resolution that
\* is selected when the message is processed: the store and the series after it
\* are those of processTrades under that resolution, and every candle passed to
\* the chart starts at the trade's bucket of that width.
C13_BucketWidthOfSelectedResolution ==
    [][TradesStep =>
       LET now == processTrades(dataRef, series, resolution, last'.trades)
       IN  /\ dataRef' = now.lastCandles
           /\ series' = now.series
           /\ \A k \in 1..Len(last'.trades) :
                  Prefix(k).steps[k].call # <<>>
                  => Prefix(k).steps[k].call[1].time =
                         candleTime(last'.trades[k].t,
                                    getIntervalSeconds(resolution))]_vars

\* C13 witness: the socket opened at mount, under '1', delivers a trade stamped
\* 61 s after the switch to '5', and the trade opens the candle of bucket 0 (it
\* would be bucket 60 at the width of '1').
C13_Witness ==
    /\ last.kind = "trades"
    /\ resolution = "5"
    /\ Len(sockets) = 1
    /\ last.trades[1].t = 61000
    /\ dataRef # <<>>
    /\ Last(dataRef).time = 0
    /\ 0 \in liveTimes

\* C14: within one (symbol, resolution) session fitContent() is called by the
\* first redraw of a non-empty full series, and by no other step.
C14_FitOncePerSession ==
    [][(FitByDataEffect \/ FitByResizeTimer) <=> (rendered' /\ ~rendered)]_vars

\* C15: every symbol change and every resolution change leaves the 'already
\* fitted' flag false.
C15_FittedResetOnChange ==
    [][(symbol' # symbol \/ resolution' # resolution) => ~fitted']_vars

\* C16: in a message of trades, every trade that falls in the last candle's bucket
\* or in a later one (trades being taken in arrival order) is followed by exactly
\* one series.update, with the store's last candle as it is right after that
\* trade, which the series takes as its last bar; any other trade makes no call
\* and changes neither the store nor the series.
C16_OneChartCallPerAppliedTrade ==
    [][TradesStep =>
       \A k \in 1..Len(last'.trades) :
           LET pre == StoreAfter(k - 1)
               post == StoreAfter(k)
               before == SeriesAfter(k - 1)
               call == Prefix(k).steps[k].call
           IN  IF Reached(k) /\ (pre = <<>> \/ Bucket(k) >= Last(pre).time)
               THEN /\ post # <<>>
                    /\ call = <<Last(post)>>
                    /\ (before = <<>> \/ Last(post).time >= Last(before).time)
                       => SeriesAfter(k) =
                              (IF before # <<>> /\ Last(before).time = Last(post).time
                               THEN Front(before) ELSE before) \o <<Last(post)>>
               ELSE /\ call = <<>>
                    /\ post = pre
                    /\ SeriesAfter(k) = before]_vars

\* C16 witness: a message of two trades in two buckets, after which the store and
\* the series hold the two candles they opened, in arrival order.
C16_Witness ==
    /\ last.kind = "trades"
    /\ Len(last.trades) = 2
    /\ Len(dataRef) = 2
    /\ series = dataRef
    /\ dataRef[1].time = candleTime(last.trades[1].t, getIntervalSeconds(last.resolution))
    /\ dataRef[2].time = candleTime(last.trades[2].t, getIntervalSeconds(last.resolution))
    /\ dataRef[1].time < dataRef[2].time

\* C17: while the symbol and the resolution stay the same, a candle that is not
\* the last one of the store stays in the store, at its place and unchanged.
C17_EarlierCandlesImmutable ==
    [][(symbol' = symbol /\ resolution' = resolution /\ mounted')
       => \A i \in 1..(Len(dataRef) - 1) :
              i <= Len(dataRef') /\ dataRef'[i] = dataRef[i]]_vars

C18_HistorySortedAndUnique ==
    [][last'.kind = "history"
       => /\ StrictlyIncreasing(dataRef')
          /\ {dataRef'[i].time : i \in 1..Len(dataRef')} =
                 {last'.payload[j].time : j \in 1..Len(last'.payload)}]_vars

\* C18 witness: an array of three bars that goes 120, 0, 120 became a store of two.
C18_Witness ==
    /\ last.kind = "history"
    /\ Len(last.payload) = 3
    /\ last.payload[1].time = 120
    /\ last.payload[2].time = 0
    /\ last.payload[3].time = 120
    /\ Len(dataRef) = 2

\* C19: after a history answer, the candle the store keeps for a time is the last
\* bar of the array with that time.
C19_LastDuplicateKept ==
    [][last'.kind = "history"
       => \A i \in 1..Len(dataRef') :
              \E j \in 1..Len(last'.payload) :
                  /\ dataRef'[i] = last'.payload[j]
                  /\ \A n \in (j + 1)..Len(last'.payload) :
                         last'.payload[n].time # dataRef'[i].time]_vars

\* a step in which a history request of the mounted chart ended without an array
FailedStep ==
    /\ mounted'
    /\ BagCardinality(fetches') < BagCardinality(fetches)
    /\ last'.kind # "history"

\* C21: a history request that fails (or answers with something that is not an
\* array) leaves the store, the data state and the drawn series as they are, and
\* leaves the loading state cleared.
C21_FailedFetchKeepsStore ==
    [][FailedStep
       => /\ dataRef' = dataRef
          /\ data' = data
          /\ series' = series
          /\ ~loading']_vars

\* C21 witness: the request of a new resolution failed on a store that holds the
\* drawn candles of the previous one; nothing was drawn since the change.
C21_Witness ==
    /\ mounted
    /\ resolution = "5"
    /\ fetches = EmptyBag
    /\ ~rendered
    /\ ~renderPending
    /\ Len(dataRef) = 2
    /\ dataRef[2].time = 60
    /\ series = dataRef
    /\ ~loading

\* C22: after a failed history request the component shows something else than
\* it shows after that request answered with an array that gives the same store.
C22_FailureIsShown ==
    [][FailedStep
       => \A payload \in HistoryPayloads(resolution') :
              uniqueData(sortedData(payload)) = dataRef'
              => Shown(data, loading)' #
                     Shown(uniqueData(sortedData(payload)), FALSE)]_vars

\* the interval the six resolutions stand for
IntervalTable ==
    ("1s" :> 1) @@ ("1" :> 60) @@ ("5" :> 300) @@ ("15" :> 900) @@
    ("60" :> 3600) @@ ("D" :> 86400)

\* C23: for each of the six resolutions the interval is the fixed positive
\* integer 1, 60, 300, 900, 3600 or 86400 it stands for, and the candles live
\* trades make under it start at multiples of that integer.
C23_IntervalOfEachResolution ==
    resolutionRef \in AllResolutions
    => /\ getIntervalSeconds(resolutionRef) = IntervalTable[resolutionRef]
       /\ \A i \in 1..Len(dataRef) :
              dataRef[i].time % IntervalTable[resolutionRef] = 0

\* C23 witness: under 'D' a trade stamped two days and one millisecond opened the
\* candle that starts at 172800.
C23_Witness ==
    /\ last.kind = "trades"
    /\ resolutionRef = "D"
    /\ dataRef # <<>>
    /\ Last(dataRef).time = 172800

C25_BucketStart ==
    [][TradesStep =>
       \A k \in 1..Len(last'.trades) :
           LET i == IntervalTable[last'.resolution]
               t == last'.trades[k].t
               b == Bucket(k)
               call == Prefix(k).steps[k].call
           IN  /\ 1000 * b <= t
               /\ t < 1000 * (b + i)
               /\ b % i = 0
               /\ candleTime(1000 * b, i) = b
               /\ call # <<>> => call[1].time = b]_vars

\* C25 witness: under '15' a trade one millisecond before the boundary of 900 s
\* opened the candle of bucket 0, and the next one, at the boundary, that of 900.
C25_Witness ==
    /\ last.kind = "trades"
    /\ last.resolution = "15"
    /\ Len(last.trades) = 2
    /\ last.trades[1].t = 899999
    /\ last.trades[2].t = 900000
    /\ Len(dataRef) = 2
    /\ dataRef[1].time = 0
    /\ dataRef[2].time = 900

\* C26: a trade whose price is not a finite number changes neither the store nor
\* the series and makes no call to the chart, and no candle of the store has an
\* open, high, low or close that is not a finite number.
C26_NonFinitePriceDropped ==
    [][TradesStep =>
       /\ \A k \in 1..Len(last'.trades) :
              last'.trades[k].p = NaN
              => /\ StoreAfter(k) = StoreAfter(k - 1)
                 /\ SeriesAfter(k) = SeriesAfter(k - 1)
                 /\ Prefix(k).steps[k].call = <<>>
       /\ \A i \in 1..Len(dataRef') :
              NaN \notin {dataRef'[i].open, dataRef'[i].high,
                          dataRef'[i].low, dataRef'[i].close}]_vars

\* a history record that has its time, open, high, low and close
Complete(c) == Missing \notin {c.time, c.open, c.high, c.low, c.close}

\* C27: after a history answer the store is made of the complete records of the
\* array, sorted and deduplicated: a record that lacks a required field is left
\* out, and it alone.
C27_IncompleteRecordDropped ==
    [][last'.kind = "history"
       => /\ \A i \in 1..Len(dataRef') : Complete(dataRef'[i])
          /\ dataRef' = uniqueData(sortedData(SelectSeq(last'.payload, Complete)))]_vars

\* C28: the connection status becomes 'connected' only from 'connecting', and it
\* leaves 'disconnected' or 'error' for 'connecting' or 'connected' only in a
\* step that creates a socket.
C28_StatusFollowsOneSocket ==
    [][/\ (wsStatus' = "connected" /\ wsStatus # "connected")
          => wsStatus = "connecting"
       /\ (wsStatus \in {"disconnected", "error"}
           /\ wsStatus' \in {"connecting", "connected"})
          => Len(sockets') > Len(sockets)]_vars

\* A step in which the parent expanded or collapsed the chart.
ExpandStep == mounted' /\ used' = used + 1 /\ last'.kind = "other"

TerminalMessages == {i \in 1..Len(messages) : messages[i] \in TerminalTexts}

\* C30: for one chat task, the list holds at most one message that ends the poll
\* and setChatLoading(false) is called at most once, whatever the number of
\* status requests in flight and the order of their answers.
C30_OneTerminalMessage ==
    /\ Cardinality(TerminalMessages) <= 1
    /\ poll.cleared <= 1

\* C31: once the interval has ticked past the 120 s, the poll has stopped, the
\* list holds exactly one message that ends it and the loading flag is false,
\* whatever the answers were and however many requests never resolved.
C31_PollStopsWithOneMessage ==
    poll.ticks > TickLimit =>
        /\ poll.done
        /\ ~poll.timer
        /\ ~chatLoading
        /\ Cardinality(TerminalMessages) = 1

\* a step in which a status request came back
Answered == poll'.inFlight = poll.inFlight - 1
\* ... as a failure: the catch counted it
AnsweredFailure == Answered /\ poll'.errors = poll.errors + 1
\* the step appended the message `text`
Appended(text) == messages' = Append(messages, text)
\* ... as a parsed status (SUCCESS, FAILURE or PENDING)
AnsweredParsed == Answered /\ ~AnsweredFailure /\ ~Appended("restarted")

\* C32: the connection-error message is appended only by the failure that
\* follows 5 failures in a row; a parsed status sets the counter to 0; a failure
\* that is at most the 5th in a row changes neither the list nor the interval.
C32_ConnectionErrorAfterSixFailures ==
    [][ /\ Appended("connection") => AnsweredFailure /\ poll.errors >= 5
        /\ AnsweredParsed => poll'.errors = 0
        /\ AnsweredFailure /\ poll.errors < 5 =>
               /\ messages' = messages
               /\ poll'.timer = poll.timer
               /\ poll'.done = poll.done ]_vars

C32_Witness ==
    /\ Len(messages) = 2
    /\ messages[2] = "connection"
    /\ poll.errors = 6

\* how many messages of the list are `text`
Count(text) == Cardinality({i \in 1..Len(messages) : messages[i] = text})

\* C33: a submission makes at most 11 POST requests; a poll runs only for a
\* submission that got its task id, and then no 'could not reach the server'
\* message is in the list; a submission that gave up made 11 requests, left
\* exactly one such message, cleared the loading flag and started no poll.
C33_AtMostElevenAttempts ==
    /\ submit.posts <= 11
    /\ poll.started <=> submit.at = "polling"
    /\ submit.at # "failed" => Count("unreachable") = 0
    /\ submit.at = "failed" =>
           /\ submit.posts = 11
           /\ Count("unreachable") = 1
           /\ ~chatLoading

C33_Witness ==
    /\ submit.at = "failed"
    /\ submit.posts = 11

\* C34: the list never holds two warming messages, and holds none once the
\* submission has its task id or has given up.
C34_WarmingShownOnce ==
    /\ Count("warming") <= 1
    /\ submit.at \in {"polling", "failed"} => Count("warming") = 0

C34_Witness ==
    /\ submit.at = "polling"
    /\ submit.warmingShown
    /\ submit.i >= 2

SocketsQuiet == \A id \in DOMAIN sockets : sockets[id].state \in {"open", "closed"}

\* C36: once every socket event was delivered, the status of a mounted chart is
\* 'connected' exactly when the socket of its current symbol is open.
C36_StatusOfCurrentSocket ==
    (mounted /\ ws # 0 /\ SocketsQuiet) =>
        (wsStatus = "connected" <=> sockets[ws].state = "open")

\* C37: the price table holds entries only for symbols of the watchlist: a
\* removed symbol has none until it is added again.
C37_RemovedSymbolHasNoPrice ==
    DOMAIN stockData \subseteq Listed(symbols)

\* C38: no symbol is in the watchlist twice.
C38_WatchlistHasNoDuplicate ==
    \A i, j \in 1..Len(symbols) : i # j => symbols[i] # symbols[j]

\* C38 witness: a symbol that was removed and added again, and one that came in
\* through the symbol switcher of the chart tab.
C38_Witness ==
    /\ symbols = <<"TSLA", "AAPL", "NVDA">>
    /\ activeSymbol = "NVDA"

\* C39: once every search and every candle request was answered, the candles
\* shown are those of the selected stock for the selected range.
C39_ChartDataOfCurrentSelection ==
    (stockRequests = {} /\ candleRequests = {} /\ traderStock # "" /\ chartData # NoData)
        => (chartData.stock = traderStock /\ chartData.range = chartRange)

====
